---------------------------- MODULE Spec2Model ----------------------------
(***************************************************************************)
(* PawWell Care Center, backend/accounts: the account and token workflows  *)
(* (register, verify email, resend verification, login, forgot password,   *)
(* reset password) over the User, EmailVerification and PasswordReset      *)
(* tables.                                                                 *)
(*                                                                         *)
(* Time is counted in hours.  One request reads the clock as often as it   *)
(* likes and gets the same hour every time: the clock advances between     *)
(* requests (Spec) or between the database statements of interleaved       *)
(* requests (SpecConc), never inside one statement.                        *)
(*                                                                         *)
(* Strings the code inspects (emails, passwords) are sequences of          *)
(* one-character strings, so that lower(), strip() and the regular         *)
(* expressions are computed rather than assumed.                           *)
(***************************************************************************)
EXTENDS Integers, Sequences, FiniteSets, TLC

\* ------------------------------------------------------------------ bounds

\* Users the store may hold.
MaxUsers == 1
\* Verification tokens ever issued (registration and resend).
MaxVerifs == 2
\* Reset tokens ever issued.
MaxResets == 1
\* Times the clock advances.
MaxTicks == 2
\* Requests in flight at once (SpecConc).
NumProcs == 2

\* ------------------------------------------------------- program constants

\* timedelta(hours=24) of EmailVerification.save
VerifWindowHours == 24
\* timedelta(hours=1) of PasswordReset.save
ResetWindowHours == 1
\* len(value) < 8 of validate_password / validate_new_password
MinPasswordLen == 8

\* ------------------------------------------------------------ characters

UpperLetters == {"A", "B", "X"}
LowerLetters == {"a", "b", "c", "o", "x", "p", "s", "w", "r", "d", "n", "e"}
Letters == UpperLetters \cup LowerLetters
Digits == {"0", "1", "2"}
Whitespace == {" "}

\* str.lower() on one character
LowerChar(c) ==
    CASE c = "A" -> "a"
      [] c = "B" -> "b"
      [] c = "X" -> "x"
      [] OTHER -> c

\* str.lower()
Lower(s) == [i \in 1..Len(s) |-> LowerChar(s[i])]

\* str.strip(): drop leading and trailing whitespace
RECURSIVE LStrip(_)
LStrip(s) == IF s # <<>> /\ Head(s) \in Whitespace THEN LStrip(Tail(s)) ELSE s

RECURSIVE RStrip(_)
RStrip(s) ==
    IF s # <<>> /\ s[Len(s)] \in Whitespace
    THEN RStrip(SubSeq(s, 1, Len(s) - 1))
    ELSE s

Strip(s) == RStrip(LStrip(s))

AllIn(s, lo, hi, S) == \A i \in lo..hi : s[i] \in S

\* re.match(r'^[a-zA-Z0-9._%+-]+@[a-zA-Z0-9.-]+\.[a-zA-Z]{2,}$', value)
EmailRegexMatch(s) ==
    \E at \in 2..Len(s) : \E dot \in (at + 2)..Len(s) :
        /\ s[at] = "@"
        /\ s[dot] = "."
        /\ AllIn(s, 1, at - 1, Letters \cup Digits \cup {".", "_", "%", "+", "-"})
        /\ AllIn(s, at + 1, dot - 1, Letters \cup Digits \cup {".", "-"})
        /\ Len(s) - dot >= 2
        /\ AllIn(s, dot + 1, Len(s), Letters)

\* serializers.EmailField: whitespace is trimmed, then Django's EmailValidator
\* wants one "@" with a non-empty user part and a dotted domain ending in letters.
EmailFieldValid(s) ==
    /\ Cardinality({i \in 1..Len(s) : s[i] = "@"}) = 1
    /\ EmailRegexMatch(s)

\* BaseUserManager.normalize_email: lower-case the domain part only
normalize_email(s) ==
    IF \E i \in 1..Len(s) : s[i] = "@"
    THEN LET at == CHOOSE i \in 1..Len(s) :
                       s[i] = "@" /\ \A j \in (i + 1)..Len(s) : s[j] # "@"
         IN  [i \in 1..Len(s) |-> IF i > at THEN LowerChar(s[i]) ELSE s[i]]
    ELSE s

\* validate_password / validate_new_password: the field errors of a password
PasswordPolicyOk(p) ==
    /\ Len(p) >= MinPasswordLen
    /\ \E i \in 1..Len(p) : p[i] \in Letters
    /\ \E i \in 1..Len(p) : p[i] \in Digits

\* UserLoginSerializer.validate_password: not value or value.strip() == ''
LoginPasswordOk(p) == p # <<>> /\ Strip(p) # <<>>

\* set_password stores make_password(raw); check_password(raw) compares against it.
\* The hashing primitive is Django's; all the workflows use of it is that the
\* stored value is not the plain text and matches exactly the password set.
make_password(raw) == [algorithm |-> "pbkdf2_sha256", of |-> raw]

check_password(raw, stored) == stored = make_password(raw)


\* validate_phone_number: separators removed, then ^\+?[\d]{10,15}$
PhoneClean(s) == SelectSeq(s, LAMBDA c : c \notin (Whitespace \cup {"-", "(", ")"}))

PhoneOk(s) ==
    \/ s = <<>>
    \/ LET c == PhoneClean(s)
           d == IF c # <<>> /\ Head(c) = "+" THEN Tail(c) ELSE c
       IN  Len(d) >= 10 /\ Len(d) <= 15 /\ AllIn(d, 1, Len(d), Digits)

\* ------------------------------------------------------------------ inputs

EmA == <<"a", "@", "x", ".", "c", "o">>
EmAUpper == <<"A", "@", "X", ".", "c", "o">>
EmASpaced == <<" ", "a", "@", "x", ".", "c", "o">>
EmB == <<"b", "@", "x", ".", "c", "o">>
EmBad == <<"a", "@", "x">>
EmEmpty == <<>>

Pw1 == <<"p", "a", "s", "s", "w", "o", "r", "d", "1">>
Pw2 == <<"n", "e", "w", "p", "a", "s", "s", "2">>
PwShort == <<"p", "a", "1">>
PwNoDigit == <<"p", "a", "s", "s", "w", "o", "r", "d">>
PwNoLetter == <<"0", "1", "2", "0", "1", "2", "0", "1">>
PwBlank == <<" ">>

PhoneNone == <<>>
PhoneGood == <<"+", "0", "1", "2", "-", "0", "1", "2", "0", "1", "2", "0">>
PhoneBad == <<"0", "1", "2">>

RegData(e, p, c, ph) ==
    [email |-> e, password |-> p, confirm_password |-> c, phone_number |-> ph]

\* Registration requests: the valid ones and one per validation rule.
\* first_name, last_name and user_type are present and valid in all of them.
RegistrationInputs ==
    { RegData(EmA, Pw1, Pw1, PhoneNone),
      RegData(EmAUpper, Pw1, Pw1, PhoneGood),
      RegData(EmB, Pw2, Pw2, PhoneNone),
      RegData(EmBad, Pw1, Pw1, PhoneNone),
      RegData(EmB, PwShort, PwShort, PhoneNone),
      RegData(EmB, PwNoDigit, PwNoDigit, PhoneNone),
      RegData(EmB, PwNoLetter, PwNoLetter, PhoneNone),
      RegData(EmB, Pw1, Pw2, PhoneNone),
      RegData(EmB, Pw1, Pw1, PhoneBad) }

LoginData(e, p) == [email |-> e, password |-> p]

\* Login requests: both passwords for one address, the other spellings and
\* addresses with one password, and one request per validation rule.
LoginInputs ==
    { LoginData(EmA, Pw1), LoginData(EmA, Pw2), LoginData(EmAUpper, Pw1),
      LoginData(EmASpaced, Pw1), LoginData(EmB, Pw1), LoginData(EmB, Pw2),
      LoginData(EmBad, Pw1), LoginData(EmA, PwBlank) }

ForgotEmails == {EmA, EmAUpper, EmB, EmBad}
ResendEmails == {EmA, EmAUpper, EmB, EmEmpty}

\* Token values: the uuid4 values the store hands out are numbered in order of
\* issue; 0 is a well-formed value that is never issued.  A client presents 0
\* or a value that was issued (and mailed): a uuid4 is not guessed ahead of its
\* issue.
VerifTokens == 0..MaxVerifs
ResetTokens == 0..MaxResets

\* ------------------------------------------------------------------- state

VARIABLES
    now,        \* timezone.now(), in hours
    ticks,      \* times the clock has advanced
    users,      \* the User table: a sequence of rows, the id is the index
    verifs,     \* the EmailVerification table: token value -> row
    verifIssued,\* verification tokens issued so far
    resets,     \* the PasswordReset table: a sequence of rows, the token value is the index
    req,        \* the request being answered
    resp,       \* the Response returned for it
    mail,       \* the notifier call made for it and whether send_mail delivered
    procs,      \* the requests in flight, statement by statement (SpecConc)
    blacklist   \* the refresh tokens the Session Token Service has revoked

vars == <<now, ticks, users, verifs, verifIssued, resets, req, resp, mail, procs,
          blacklist>>

NoLogin == <<>>
NoReq == [op |-> "none"]
NoResp == [status |-> 0]
NoMail == [kind |-> "none"]

Procs == 1..NumProcs
Idle == [pc |-> "idle"]

\* The tables after migration: no rows.
Init ==
    /\ now = 0
    /\ ticks = 0
    /\ users = <<>>
    /\ verifs = <<>>
    /\ verifIssued = 0
    /\ resets = <<>>
    /\ req = NoReq
    /\ resp = NoResp
    /\ mail = NoMail
    /\ procs = [p \in Procs |-> Idle]
    /\ blacklist = {}

\* ------------------------------------------------------------------ models

\* User.objects.filter(email=value): the ids of the rows with that email
UsersByEmail(U, email) == {u \in 1..Len(U) : U[u].email = email}

\* User.objects.get(email=email), when a row exists (email is unique)
UserByEmail(U, email) == CHOOSE u \in UsersByEmail(U, email) : TRUE

\* UserManager.create_user with the fields UserRegistrationSerializer.create passes
create_user(email, password, is_active, email_verified) ==
    [email |-> normalize_email(email),
     password |-> make_password(password),
     email_verified |-> email_verified,
     is_active |-> is_active,
     last_login |-> NoLogin]

\* EmailVerification.objects.create(user=user): is_verified defaults to False,
\* created_at is auto_now_add, save() sets expires_at 24 hours ahead
NewEmailVerification(user, t) ==
    [user |-> user, is_verified |-> FALSE, created_at |-> t,
     expires_at |-> t + VerifWindowHours]

\* is_expired that never reports expiry
EmailVerification_is_expired_Never(v, t) == FALSE

\* is_expired with the comparison turned around
EmailVerification_is_expired_Reversed(v, t) == t < v.expires_at

\* EmailVerification.is_expired
EmailVerification_is_expired(v, t) == t > v.expires_at

\* PasswordReset.objects.create(user=user)
NewPasswordReset(user, t) ==
    [user |-> user, is_used |-> FALSE, created_at |-> t,
     expires_at |-> t + ResetWindowHours]

\* PasswordReset.is_expired
PasswordReset_is_expired(r, t) == t > r.expires_at

\* PasswordReset.can_reset
PasswordReset_can_reset(r, t) == ~r.is_used /\ ~PasswordReset_is_expired(r, t)

\* Model.save() of a token row: UPDATE, and INSERT when no row has that key
SaveRow(table, key, row) ==
    [k \in DOMAIN table \cup {key} |-> IF k = key THEN row ELSE table[k]]

\* a delete() that removes nothing
DeleteRows_None(table, keys) == table

\* QuerySet.delete() of the rows chosen
DeleteRows(table, keys) == [k \in DOMAIN table \ keys |-> table[k]]

\* ---------------------------------------------------------------- notifier

\* send_verification_email, send_welcome_email, send_password_reset_email,
\* send_password_changed_email: send_mail is tried once; an exception is caught
\* and the function returns False.  `delivered` is what send_mail did.
SendMail(kind, to, delivered) == [kind |-> kind, to |-> to, delivered |-> delivered]

\* --------------------------------------------------------------- responses

ValidationErrorResponse(fields) ==
    [status |-> 400, success |-> FALSE, errors |-> fields]

MessageResponse(code, ok, message) ==
    [status |-> code, success |-> ok, message |-> message]

\* a registration that reports failure when the verification mail was not sent
RegisteredResponse_FailsUndelivered(email, email_sent) ==
    IF email_sent
    THEN [status |-> 201, success |-> TRUE,
          message |-> "Registration successful! Please check your email to verify your account.",
          email |-> email, email_sent |-> email_sent,
          instructions |-> "Check your email inbox and click the verification link to activate your account."]
    ELSE MessageResponse(500, FALSE, "Verification email could not be sent.")

RegisteredResponse(email, email_sent) ==
    [status |-> 201, success |-> TRUE,
     message |-> "Registration successful! Please check your email to verify your account.",
     email |-> email, email_sent |-> email_sent,
     instructions |-> "Check your email inbox and click the verification link to activate your account."]

VerifyAlreadyResponse ==
    MessageResponse(400, FALSE, "Email already verified. You can now login.")

VerifyExpiredResponse ==
    MessageResponse(400, FALSE,
        "Verification link has expired. Please register again or request a new verification link.")

VerifyNotFoundResponse == MessageResponse(404, FALSE, "Invalid verification token.")

VerifiedResponse(email) ==
    [status |-> 200, success |-> TRUE,
     message |-> "Email verified successfully! You can now login to your account.",
     email |-> email]

InvalidCredentialsResponse == MessageResponse(401, FALSE, "Invalid email or password.")

UnverifiedEmailResponse ==
    MessageResponse(403, FALSE,
        "Please verify your email before logging in. Check your inbox for the verification link.")

DeactivatedResponse ==
    MessageResponse(403, FALSE, "Your account has been deactivated. Please contact support.")

ForgotResponse ==
    [status |-> 200, success |-> TRUE,
     message |-> "If an account exists with this email, you will receive a password reset link shortly.",
     instructions |-> "Please check your email inbox and spam folder."]

ResetUsedResponse ==
    MessageResponse(400, FALSE, "This password reset link has already been used.")

ResetExpiredResponse ==
    MessageResponse(400, FALSE,
        "This password reset link has expired. Please request a new one.")

ResetNotFoundResponse == MessageResponse(404, FALSE, "Invalid password reset token.")

ResetDoneResponse ==
    MessageResponse(200, TRUE,
        "Password reset successful! You can now login with your new password.")

ResendRequiredResponse == MessageResponse(400, FALSE, "Email is required.")

ResendAlreadyResponse ==
    MessageResponse(400, FALSE, "Email is already verified. You can login.")

ResendSentResponse(email, email_sent) ==
    [status |-> 200, success |-> TRUE,
     message |-> "Verification email sent successfully!",
     email |-> email, email_sent |-> email_sent]

ResendUnknownResponse ==
    MessageResponse(200, TRUE,
        "If an account exists with this email, you will receive a verification link shortly.")

\* ------------------------------------------------------------ registration

\* UserRegistrationSerializer.validate_email, after the field's own validators
\* (EmailField, and the UniqueValidator a unique model field brings)
RegistrationEmailOk(U, raw) ==
    LET trimmed == Strip(raw)
        value == Strip(Lower(trimmed))
    IN  /\ EmailFieldValid(trimmed)
        /\ UsersByEmail(U, trimmed) = {}
        /\ UsersByEmail(U, value) = {}
        /\ EmailRegexMatch(value)

\* is_valid() without validate(): the confirmation is not compared
RegistrationErrors_IgnoresConfirmation(U, data) ==
    (IF RegistrationEmailOk(U, data.email) THEN {} ELSE {"email"})
    \cup (IF PasswordPolicyOk(data.password) THEN {} ELSE {"password"})
    \cup (IF PhoneOk(data.phone_number) THEN {} ELSE {"phone_number"})

\* serializer.errors: the fields in error; validate() compares the passwords
\* only when every field passed
RegistrationErrors(U, data) ==
    LET fields ==
            (IF RegistrationEmailOk(U, data.email) THEN {} ELSE {"email"})
            \cup (IF PasswordPolicyOk(data.password) THEN {} ELSE {"password"})
            \cup (IF PhoneOk(data.phone_number) THEN {} ELSE {"phone_number"})
    IN  IF fields # {} THEN fields
        ELSE IF data.password # data.confirm_password THEN {"confirm_password"}
        ELSE {}

\* create() on the address as typed: validate_email's lower() left out
UserRegistrationSerializer_create_KeepsCase(data) ==
    create_user(Strip(data.email), data.password, FALSE, FALSE)

\* create() without is_active=False: the column default (True) applies
UserRegistrationSerializer_create_DefaultActive(data) ==
    create_user(Strip(Lower(Strip(data.email))), data.password, TRUE, FALSE)

\* UserRegistrationSerializer.create
UserRegistrationSerializer_create(data) ==
    create_user(Strip(Lower(Strip(data.email))), data.password, FALSE, FALSE)

\* UserRegistrationView.post
UserRegistrationView_post(data) ==
    /\ req' = [op |-> "register", at |-> now, data |-> data]
    /\ IF RegistrationErrors(users, data) = {}
       THEN LET user == Len(users) + 1
                row == UserRegistrationSerializer_create(data)
                token == verifIssued + 1
            IN  /\ Len(users) < MaxUsers
                /\ verifIssued < MaxVerifs
                /\ users' = Append(users, row)
                /\ verifs' = SaveRow(verifs, token, NewEmailVerification(user, now))
                /\ verifIssued' = token
                /\ \E delivered \in BOOLEAN :
                     /\ mail' = SendMail("verification", row.email, delivered)
                     /\ resp' = RegisteredResponse(row.email, delivered)
       ELSE /\ resp' = ValidationErrorResponse(RegistrationErrors(users, data))
            /\ mail' = NoMail
            /\ UNCHANGED <<users, verifs, verifIssued>>
    /\ UNCHANGED <<blacklist, now, ticks, resets, procs>>

\* ------------------------------------------------------ email verification

\* the checks with the expiry test before the is_verified test
EmailVerificationOutcome_ExpiredFirst(V, token, t) ==
    IF token \notin DOMAIN V THEN "not_found"
    ELSE IF EmailVerification_is_expired(V[token], t) THEN "expired"
    ELSE IF V[token].is_verified THEN "already_verified"
    ELSE "ok"

\* EmailVerificationView.get, lines 87-101: what the checks decide for the
\* row read from table V at time t
EmailVerificationOutcome(V, token, t) ==
    IF token \notin DOMAIN V THEN "not_found"
    ELSE IF V[token].is_verified THEN "already_verified"
    ELSE IF EmailVerification_is_expired(V[token], t) THEN "expired"
    ELSE "ok"

\* line 106 left out: only email_verified is set
ActivatedUser_OnlyVerified(row) == [row EXCEPT !.email_verified = TRUE]

\* lines 105-106 on the user instance loaded through verification.user
ActivatedUser(row) == [row EXCEPT !.email_verified = TRUE, !.is_active = TRUE]

\* line 104 left out: the instance is saved as it was read
ConsumedVerification_NotMarked(v) == v

\* line 104 on the verification instance
ConsumedVerification(v) == [v EXCEPT !.is_verified = TRUE]

\* the Response of each outcome
EmailVerificationResponse(outcome, email) ==
    CASE outcome = "not_found" -> VerifyNotFoundResponse
      [] outcome = "already_verified" -> VerifyAlreadyResponse
      [] outcome = "expired" -> VerifyExpiredResponse
      [] OTHER -> VerifiedResponse(email)

\* EmailVerificationView.get
EmailVerificationView_get(token) ==
    LET outcome == EmailVerificationOutcome(verifs, token, now)
    IN  /\ req' = [op |-> "verify", at |-> now, token |-> token]
        /\ IF outcome = "ok"
           THEN LET v == verifs[token]
                    row == ActivatedUser(users[v.user])
                IN  /\ users' = [users EXCEPT ![v.user] = row]
                    /\ verifs' = SaveRow(verifs, token, ConsumedVerification(v))
                    /\ \E delivered \in BOOLEAN :
                         mail' = SendMail("welcome", row.email, delivered)
                    /\ resp' = EmailVerificationResponse(outcome, row.email)
           ELSE /\ resp' = EmailVerificationResponse(outcome, <<>>)
                /\ mail' = NoMail
                /\ UNCHANGED <<users, verifs>>
        /\ UNCHANGED <<blacklist, now, ticks, verifIssued, resets, procs>>

\* ------------------------------------------------------ resend verification

\* a filter that selects only the user's consumed tokens
OldVerifications_Consumed(V, user) ==
    {k \in DOMAIN V : V[k].user = user /\ V[k].is_verified}

\* line 432: EmailVerification.objects.filter(user=user), the rows to delete
OldVerifications(V, user) == {k \in DOMAIN V : V[k].user = user}

\* ResendVerificationEmailView.post
ResendVerificationEmailView_post(email) ==
    /\ req' = [op |-> "resend", at |-> now, email |-> email]
    /\ IF email = <<>>
       THEN /\ resp' = ResendRequiredResponse
            /\ mail' = NoMail
            /\ UNCHANGED <<verifs, verifIssued>>
       ELSE IF UsersByEmail(users, Strip(Lower(email))) = {}
       THEN /\ resp' = ResendUnknownResponse
            /\ mail' = NoMail
            /\ UNCHANGED <<verifs, verifIssued>>
       ELSE LET user == UserByEmail(users, Strip(Lower(email)))
                token == verifIssued + 1
                old == OldVerifications(verifs, user)
            IN  IF users[user].email_verified
                THEN /\ resp' = ResendAlreadyResponse
                     /\ mail' = NoMail
                     /\ UNCHANGED <<verifs, verifIssued>>
                ELSE /\ verifIssued < MaxVerifs
                     /\ verifs' = SaveRow(DeleteRows(verifs, old), token,
                                          NewEmailVerification(user, now))
                     /\ verifIssued' = token
                     /\ \E delivered \in BOOLEAN :
                          /\ mail' = SendMail("verification", users[user].email, delivered)
                          /\ resp' = ResendSentResponse(users[user].email, delivered)
    /\ UNCHANGED <<blacklist, now, ticks, users, resets, procs>>

\* -------------------------------------------------------------------- login

\* program constants of UserLoginView.post: the default token lifetimes
AccessLifetimeHours == 1
RefreshLifetimeHours == 24

\* UserLoginSerializer.is_valid: the fields in error
LoginErrors(email, password) ==
    (IF EmailFieldValid(Strip(email)) THEN {} ELSE {"email"})
    \cup (IF LoginPasswordOk(password) THEN {} ELSE {"password"})

\* a lookup with the address as typed, without lower()
LoginEmail_AsTyped(email) == Strip(email)

\* UserLoginSerializer.validate_email, applied to the trimmed field value
LoginEmail(email) == Strip(Lower(Strip(email)))

\* the checks without the check_password test of lines 171-176
LoginOutcome_NoPasswordCheck(U, email, password) ==
    IF LoginErrors(email, password) # {} THEN "invalid"
    ELSE IF UsersByEmail(U, LoginEmail(email)) = {} THEN "no_user"
    ELSE LET user == U[UserByEmail(U, LoginEmail(email))]
         IN  IF ~user.email_verified THEN "unverified"
             ELSE IF ~user.is_active THEN "deactivated"
             ELSE "ok"

\* the checks with is_active tested before email_verified
LoginOutcome_ActiveFirst(U, email, password) ==
    IF LoginErrors(email, password) # {} THEN "invalid"
    ELSE IF UsersByEmail(U, LoginEmail(email)) = {} THEN "no_user"
    ELSE LET user == U[UserByEmail(U, LoginEmail(email))]
         IN  IF ~user.is_active THEN "deactivated"
             ELSE IF ~user.email_verified THEN "unverified"
             ELSE IF ~check_password(password, user.password) THEN "wrong_password"
             ELSE "ok"

\* lines 148-176: what the checks decide
LoginOutcome(U, email, password) ==
    IF LoginErrors(email, password) # {} THEN "invalid"
    ELSE IF UsersByEmail(U, LoginEmail(email)) = {} THEN "no_user"
    ELSE LET user == U[UserByEmail(U, LoginEmail(email))]
         IN  IF ~user.email_verified THEN "unverified"
             ELSE IF ~user.is_active THEN "deactivated"
             ELSE IF ~check_password(password, user.password) THEN "wrong_password"
             ELSE "ok"

\* RefreshToken.for_user(user) and its access_token
SessionToken(type, user, t) == [token_type |-> type, user_id |-> user, iat |-> t]

\* UserProfileSerializer(user).data: the password is not a field of it
UserProfile(id, row) ==
    [id |-> id, email |-> row.email, email_verified |-> row.email_verified,
     is_active |-> row.is_active, last_login |-> row.last_login]

LoginResponse(id, row, t) ==
    [status |-> 200, success |-> TRUE, message |-> "Login successful!",
     access |-> SessionToken("access", id, t),
     refresh |-> SessionToken("refresh", id, t),
     user |-> UserProfile(id, row),
     access_token_expiry |-> t + AccessLifetimeHours,
     refresh_token_expiry |-> t + RefreshLifetimeHours]

\* the failing Responses with a message of its own for a wrong password
LoginFailureResponse_TellsWrongPassword(outcome, errors) ==
    CASE outcome = "invalid" -> ValidationErrorResponse(errors)
      [] outcome = "no_user" -> InvalidCredentialsResponse
      [] outcome = "unverified" -> UnverifiedEmailResponse
      [] outcome = "deactivated" -> DeactivatedResponse
      [] OTHER -> MessageResponse(401, FALSE, "Incorrect password.")

\* the Response of each failing outcome
LoginFailureResponse(outcome, errors) ==
    CASE outcome = "invalid" -> ValidationErrorResponse(errors)
      [] outcome = "no_user" -> InvalidCredentialsResponse
      [] outcome = "unverified" -> UnverifiedEmailResponse
      [] outcome = "deactivated" -> DeactivatedResponse
      [] OTHER -> InvalidCredentialsResponse

\* a login that leaves last_login as it was
TouchLastLogin_Not(row, t) == row

\* lines 179-180: user.last_login = timezone.now(), saved with
\* update_fields=['last_login']
TouchLastLogin(row, t) == [row EXCEPT !.last_login = <<t>>]

\* UserLoginView.post
UserLoginView_post(email, password) ==
    LET outcome == LoginOutcome(users, email, password)
    IN  /\ req' = [op |-> "login", at |-> now, email |-> email, password |-> password]
        /\ mail' = NoMail
        /\ IF outcome = "ok"
           THEN LET id == UserByEmail(users, LoginEmail(email))
                    row == TouchLastLogin(users[id], now)
                IN  /\ users' = [users EXCEPT ![id] = row]
                    /\ resp' = LoginResponse(id, row, now)
           ELSE /\ resp' = LoginFailureResponse(outcome, LoginErrors(email, password))
                /\ UNCHANGED users
        /\ UNCHANGED <<blacklist, now, ticks, verifs, verifIssued, resets, procs>>

\* ---------------------------------------------------------- forgot password

\* ForgotPasswordSerializer.is_valid
ForgotErrors(email) == IF EmailFieldValid(Strip(email)) THEN {} ELSE {"email"}

\* a Response that answers an unknown address with 404
ForgotPasswordResponse_TellsUnknown(found) ==
    IF found THEN ForgotResponse
    ELSE MessageResponse(404, FALSE, "No account exists with this email.")

\* lines 243-248: the Response, whether or not a user was found
ForgotPasswordResponse(found) == ForgotResponse

\* a create() that also marks the user's earlier reset tokens used
IssueReset_InvalidatesOld(R, user, t) ==
    Append([k \in DOMAIN R |->
               IF R[k].user = user THEN [R[k] EXCEPT !.is_used = TRUE] ELSE R[k]],
           NewPasswordReset(user, t))

\* line 234: PasswordReset.objects.create(user=user) is an INSERT of one row
IssueReset(R, user, t) == Append(R, NewPasswordReset(user, t))

\* ForgotPasswordView.post, with the reset table holding up to `capacity` rows
ForgotPasswordView_post_within(email, capacity) ==
    LET value == Strip(Lower(Strip(email)))
    IN  /\ req' = [op |-> "forgot", at |-> now, email |-> email]
        /\ IF ForgotErrors(email) # {}
           THEN /\ resp' = ValidationErrorResponse(ForgotErrors(email))
                /\ mail' = NoMail
                /\ UNCHANGED resets
           ELSE IF UsersByEmail(users, value) = {}
           THEN /\ resp' = ForgotPasswordResponse(FALSE)
                /\ mail' = NoMail
                /\ UNCHANGED resets
           ELSE LET user == UserByEmail(users, value)
                IN  /\ Len(resets) < capacity
                    /\ resets' = IssueReset(resets, user, now)
                    /\ \E delivered \in BOOLEAN :
                         mail' = SendMail("reset", users[user].email, delivered)
                    /\ resp' = ForgotPasswordResponse(TRUE)
        /\ UNCHANGED <<blacklist, now, ticks, users, verifs, verifIssued, procs>>

\* ForgotPasswordView.post
ForgotPasswordView_post(email) == ForgotPasswordView_post_within(email, MaxResets)

\* ----------------------------------------------------------- reset password

ResetData(token, p, c) == [token |-> token, new_password |-> p, confirm_password |-> c]

\* Reset requests: every token value with a valid password, and one request
\* per validation rule.  The token is a well-formed UUID in all of them.
ResetInputs ==
    {ResetData(k, p, p) : k \in ResetTokens, p \in {Pw1, Pw2}}
    \cup {ResetData(0, PwShort, PwShort), ResetData(1, PwShort, PwShort),
          ResetData(1, Pw1, Pw2)}

\* ResetPasswordSerializer.is_valid: the fields in error
ResetErrors(data) ==
    IF ~PasswordPolicyOk(data.new_password) THEN {"new_password"}
    ELSE IF data.new_password # data.confirm_password THEN {"confirm_password"}
    ELSE {}

\* the checks with the expiry test before the is_used test
ResetPasswordOutcome_ExpiredFirst(R, data, t) ==
    IF ResetErrors(data) # {} THEN "invalid"
    ELSE IF data.token \notin DOMAIN R THEN "not_found"
    ELSE IF PasswordReset_is_expired(R[data.token], t) THEN "expired"
    ELSE IF R[data.token].is_used THEN "already_used"
    ELSE "ok"

\* the checks without the is_used test of lines 277-282
ResetPasswordOutcome_NoUsedCheck(R, data, t) ==
    IF ResetErrors(data) # {} THEN "invalid"
    ELSE IF data.token \notin DOMAIN R THEN "not_found"
    ELSE IF PasswordReset_is_expired(R[data.token], t) THEN "expired"
    ELSE "ok"

\* ResetPasswordView.post, lines 262-289: what the checks decide for table R at time t
ResetPasswordOutcome(R, data, t) ==
    IF ResetErrors(data) # {} THEN "invalid"
    ELSE IF data.token \notin DOMAIN R THEN "not_found"
    ELSE IF R[data.token].is_used THEN "already_used"
    ELSE IF PasswordReset_is_expired(R[data.token], t) THEN "expired"
    ELSE "ok"

\* line 297 left out: the instance is saved as it was read
UsedReset_NotMarked(r) == r

\* line 297 on the reset instance
UsedReset(r) == [r EXCEPT !.is_used = TRUE]

ResetPasswordResponse(outcome, data) ==
    CASE outcome = "invalid" -> ValidationErrorResponse(ResetErrors(data))
      [] outcome = "not_found" -> ResetNotFoundResponse
      [] outcome = "already_used" -> ResetUsedResponse
      [] outcome = "expired" -> ResetExpiredResponse
      [] OTHER -> ResetDoneResponse

\* ResetPasswordView.post
ResetPasswordView_post(data) ==
    LET outcome == ResetPasswordOutcome(resets, data, now)
    IN  /\ req' = [op |-> "reset", at |-> now, data |-> data]
        /\ resp' = ResetPasswordResponse(outcome, data)
        /\ IF outcome = "ok"
           THEN LET reset == resets[data.token]
                    row == [users[reset.user] EXCEPT
                                !.password = make_password(data.new_password)]
                IN  /\ users' = [users EXCEPT ![reset.user] = row]
                    /\ resets' = [resets EXCEPT ![data.token] = UsedReset(reset)]
                    /\ \E delivered \in BOOLEAN :
                         mail' = SendMail("password_changed", row.email, delivered)
           ELSE /\ mail' = NoMail
                /\ UNCHANGED <<users, resets>>
        /\ UNCHANGED <<blacklist, now, ticks, verifs, verifIssued, procs>>

\* -------------------------------------------------------------- environment

\* The clock: an hour passes, or a day
Tick(d) ==
    /\ ticks < MaxTicks
    /\ ticks' = ticks + 1
    /\ now' = now + d
    /\ req' = NoReq
    /\ resp' = NoResp
    /\ mail' = NoMail
    /\ UNCHANGED <<blacklist, users, verifs, verifIssued, resets, procs>>

\* An administrator deactivates an account outside the workflows (the is_active
\* column; the login view answers such an account "has been deactivated").
Deactivate(user) ==
    /\ user \in 1..Len(users)
    /\ users[user].is_active
    /\ users' = [users EXCEPT ![user].is_active = FALSE]
    /\ req' = NoReq
    /\ resp' = NoResp
    /\ mail' = NoMail
    /\ UNCHANGED <<blacklist, now, ticks, verifs, verifIssued, resets, procs>>

\* ----------------------------------------------------------- specifications

Register == \E data \in RegistrationInputs : UserRegistrationView_post(data)

VerifyEmail == \E token \in VerifTokens :
    /\ token <= verifIssued
    /\ EmailVerificationView_get(token)

ResendVerification == \E email \in ResendEmails : ResendVerificationEmailView_post(email)

Login == \E data \in LoginInputs : UserLoginView_post(data.email, data.password)

ForgotPassword == \E email \in ForgotEmails : ForgotPasswordView_post(email)

ResetPassword == \E data \in ResetInputs :
    /\ data.token <= Len(resets)
    /\ ResetPasswordView_post(data)

ClockTick == \E d \in {ResetWindowHours, VerifWindowHours} : Tick(d)

AdminDeactivate == \E user \in 1..MaxUsers : Deactivate(user)

\* Each request runs to completion before the next one starts.
Next ==
    \/ Register
    \/ VerifyEmail
    \/ ResendVerification
    \/ Login
    \/ ForgotPassword
    \/ ResetPassword
    \/ ClockTick

Spec == Init /\ [][Next]_vars

\* The workflows, and accounts deactivated from outside them.
NextAdmin == Next \/ AdminDeactivate

SpecAdmin == Init /\ [][NextAdmin]_vars

\* ------------------------------------------------- interleaved requests

\* The views open no transaction and lock no row: each ORM call is one
\* statement on the tables, and the statements of requests served at the same
\* time interleave.  A request in flight keeps the model instances it loaded.

InFlight(p, at) == procs[p].pc = at

\* EmailVerificationView.get, lines 87-104: the SELECT of the row and the
\* checks on the instance; the instance is marked verified in memory
EV_get(p, token) ==
    LET outcome == EmailVerificationOutcome(verifs, token, now)
    IN  /\ InFlight(p, "idle")
        /\ procs' = [procs EXCEPT ![p] =
               IF outcome = "ok"
               THEN [pc |-> "load_user", op |-> "verify", token |-> token,
                     verification |-> ConsumedVerification(verifs[token])]
               ELSE [pc |-> "done", op |-> "verify", token |-> token,
                     resp |-> EmailVerificationResponse(outcome, <<>>)]]
        /\ UNCHANGED <<blacklist, now, ticks, users, verifs, verifIssued, resets, req, resp, mail>>

\* lines 105-106: verification.user is loaded on first access (a SELECT of
\* the user row), then changed in memory
EV_load_user(p) ==
    /\ InFlight(p, "load_user")
    /\ procs' = [procs EXCEPT ![p] =
           [pc |-> "save_user", op |-> "verify", token |-> procs[p].token,
            verification |-> procs[p].verification,
            user |-> ActivatedUser(users[procs[p].verification.user])]]
    /\ UNCHANGED <<blacklist, now, ticks, users, verifs, verifIssued, resets, req, resp, mail>>

\* line 107: verification.user.save() writes every column of the instance
EV_save_user(p) ==
    /\ InFlight(p, "save_user")
    /\ users' = [users EXCEPT ![procs[p].verification.user] = procs[p].user]
    /\ procs' = [procs EXCEPT ![p].pc = "save_verification"]
    /\ UNCHANGED <<blacklist, now, ticks, verifs, verifIssued, resets, req, resp, mail>>

\* lines 108-117: verification.save(), the welcome mail and the Response
EV_save_verification(p) ==
    /\ InFlight(p, "save_verification")
    /\ verifs' = SaveRow(verifs, procs[p].token, procs[p].verification)
    /\ procs' = [procs EXCEPT ![p] =
           [pc |-> "done", op |-> "verify", token |-> procs[p].token,
            resp |-> EmailVerificationResponse("ok", procs[p].user.email)]]
    /\ UNCHANGED <<blacklist, now, ticks, users, verifIssued, resets, req, resp, mail>>

VerifyRequest ==
    \E p \in Procs :
        \/ \E token \in VerifTokens : token <= verifIssued /\ EV_get(p, token)
        \/ EV_load_user(p)
        \/ EV_save_user(p)
        \/ EV_save_verification(p)

\* Registrations and the clock, with verification requests served at the same time.
NextConc ==
    \/ Register
    \/ ClockTick
    \/ VerifyRequest

SpecConc == Init /\ [][NextConc]_vars

\* ResetPasswordView.post, lines 262-289: validation, the SELECT of the row
\* and the checks on the instance
RP_get(p, data) ==
    LET outcome == ResetPasswordOutcome(resets, data, now)
    IN  /\ InFlight(p, "idle")
        /\ procs' = [procs EXCEPT ![p] =
               IF outcome = "ok"
               THEN [pc |-> "reset_load_user", op |-> "reset", token |-> data.token,
                     data |-> data, reset |-> resets[data.token]]
               ELSE [pc |-> "done", op |-> "reset", token |-> data.token,
                     data |-> data, resp |-> ResetPasswordResponse(outcome, data)]]
        /\ UNCHANGED <<blacklist, now, ticks, users, verifs, verifIssued, resets, req, resp, mail>>

\* lines 292-293: reset.user is loaded (a SELECT of the user row) and
\* set_password changes the instance in memory
RP_load_user(p) ==
    /\ InFlight(p, "reset_load_user")
    /\ procs' = [procs EXCEPT ![p] =
           [pc |-> "reset_save_user", op |-> "reset", token |-> procs[p].token,
            data |-> procs[p].data, reset |-> procs[p].reset,
            user |-> [users[procs[p].reset.user] EXCEPT
                          !.password = make_password(procs[p].data.new_password)]]]
    /\ UNCHANGED <<blacklist, now, ticks, users, verifs, verifIssued, resets, req, resp, mail>>

\* line 294: user.save() writes every column of the instance
RP_save_user(p) ==
    /\ InFlight(p, "reset_save_user")
    /\ users' = [users EXCEPT ![procs[p].reset.user] = procs[p].user]
    /\ procs' = [procs EXCEPT ![p].pc = "reset_save_reset"]
    /\ UNCHANGED <<blacklist, now, ticks, verifs, verifIssued, resets, req, resp, mail>>

\* lines 297-306: reset.is_used = True, reset.save(), the confirmation mail
\* and the Response
RP_save_reset(p) ==
    /\ InFlight(p, "reset_save_reset")
    /\ resets' = [resets EXCEPT ![procs[p].token] = UsedReset(procs[p].reset)]
    /\ procs' = [procs EXCEPT ![p] =
           [pc |-> "done", op |-> "reset", token |-> procs[p].token,
            data |-> procs[p].data,
            resp |-> ResetPasswordResponse("ok", procs[p].data)]]
    /\ UNCHANGED <<blacklist, now, ticks, users, verifs, verifIssued, req, resp, mail>>

ResetRequest ==
    \E p \in Procs :
        \/ \E data \in ResetInputs : data.token <= Len(resets) /\ RP_get(p, data)
        \/ RP_load_user(p)
        \/ RP_save_user(p)
        \/ RP_save_reset(p)

\* Registrations, forgot-password requests and the clock, with reset-password
\* requests served at the same time.
NextConcReset ==
    \/ Register
    \/ ForgotPassword
    \/ ClockTick
    \/ ResetRequest

SpecConcReset == Init /\ [][NextConcReset]_vars

\* Registrations and forgot-password requests, with verification and
\* reset-password requests served at the same time.
NextConcVerifyReset ==
    \/ Register
    \/ ForgotPassword
    \/ VerifyRequest
    \/ ResetRequest

SpecConcVerifyReset == Init /\ [][NextConcVerifyReset]_vars

\* Registrations and resend-verification requests, with verification
\* requests served at the same time.
NextConcResend ==
    \/ Register
    \/ ResendVerification
    \/ ClockTick
    \/ VerifyRequest

SpecConcResend == Init /\ [][NextConcResend]_vars

\* The users table of the interleaved registrations holds up to this many rows
MaxConcUsers == 2

\* the email column without its unique index: every INSERT is accepted
User_email_unique_NotEnforced(U, email) == TRUE

\* User.email, unique=True: the unique index of the users table accepts an
\* INSERT only when no row has that email
User_email_unique(U, email) == UsersByEmail(U, email) = {}

\* An exception no handler of the view catches: the request ends with the
\* framework's 500 answer and no structured result
UnhandledExceptionResponse(exception) == [status |-> 500, exception |-> exception]

\* UserRegistrationView.post, lines 48-50 and 68-71: is_valid(), with the
\* SELECT of validate_email on the table as it is now
Reg_validate(p, data) ==
    LET errors == RegistrationErrors(users, data)
    IN  /\ InFlight(p, "idle")
        /\ procs' = [procs EXCEPT ![p] =
               IF errors = {}
               THEN [pc |-> "reg_insert", op |-> "register", data |-> data]
               ELSE [pc |-> "done", op |-> "register", data |-> data,
                     resp |-> ValidationErrorResponse(errors)]]
        /\ UNCHANGED <<blacklist, now, ticks, users, verifs, verifIssued, resets, req, resp, mail>>

\* line 52: serializer.save() runs create_user, whose user.save() is the
\* INSERT.  The unique index rejects a second row with the same email with an
\* IntegrityError, which nothing in the view catches.
Reg_insert(p) ==
    LET row == UserRegistrationSerializer_create(procs[p].data)
    IN  /\ InFlight(p, "reg_insert")
        /\ IF User_email_unique(users, row.email)
           THEN /\ Len(users) < MaxConcUsers
                /\ users' = Append(users, row)
                /\ procs' = [procs EXCEPT ![p] =
                       [pc |-> "reg_create_token", op |-> "register",
                        data |-> procs[p].data, user |-> Len(users) + 1]]
           ELSE /\ procs' = [procs EXCEPT ![p] =
                       [pc |-> "done", op |-> "register", data |-> procs[p].data,
                        resp |-> UnhandledExceptionResponse("IntegrityError")]]
                /\ UNCHANGED users
        /\ UNCHANGED <<blacklist, now, ticks, verifs, verifIssued, resets, req, resp, mail>>

\* lines 55-66: the verification token, the verification mail and the Response
Reg_create_token(p) ==
    LET token == verifIssued + 1
        email == users[procs[p].user].email
    IN  /\ InFlight(p, "reg_create_token")
        /\ verifIssued < MaxVerifs
        /\ verifs' = SaveRow(verifs, token, NewEmailVerification(procs[p].user, now))
        /\ verifIssued' = token
        /\ \E delivered \in BOOLEAN :
             procs' = [procs EXCEPT ![p] =
                 [pc |-> "done", op |-> "register", data |-> procs[p].data,
                  user |-> procs[p].user,
                  resp |-> RegisteredResponse(email, delivered)]]
        /\ UNCHANGED <<blacklist, now, ticks, users, resets, req, resp, mail>>

RegisterRequest ==
    \E p \in Procs :
        \/ \E data \in RegistrationInputs : Reg_validate(p, data)
        \/ Reg_insert(p)
        \/ Reg_create_token(p)

\* Registration requests served at the same time, and the clock.
NextConcReg ==
    \/ RegisterRequest
    \/ ClockTick

SpecConcReg == Init /\ [][NextConcReg]_vars

\* ------------------------------------------------ EmailVerification.verify

\* what verify() returns
VerifyReturned(value) == [status |-> 0, returned |-> value]

\* EmailVerification.verify, called on the instance of row `token`: when the
\* token is not expired it sets is_verified on the instance and email_verified
\* on its user, saves both and returns True; otherwise it returns False.
\* is_active is not assigned.
EmailVerification_verify(token) ==
    LET v == verifs[token]
    IN  /\ token \in DOMAIN verifs
        /\ req' = [op |-> "EmailVerification.verify", at |-> now, token |-> token]
        /\ mail' = NoMail
        /\ IF ~EmailVerification_is_expired(v, now)
           THEN /\ users' = [users EXCEPT ![v.user].email_verified = TRUE]
                /\ verifs' = SaveRow(verifs, token, [v EXCEPT !.is_verified = TRUE])
                /\ resp' = VerifyReturned(TRUE)
           ELSE /\ resp' = VerifyReturned(FALSE)
                /\ UNCHANGED <<users, verifs>>
        /\ UNCHANGED <<blacklist, now, ticks, verifIssued, resets, procs>>

CallVerify == \E token \in VerifTokens : EmailVerification_verify(token)

\* The verification token record's verify() called on the tokens that
\* registration and resend issue, as the clock advances.
NextVerifyMethod ==
    \/ Register
    \/ ResendVerification
    \/ ClockTick
    \/ CallVerify

SpecVerifyMethod == Init /\ [][NextVerifyMethod]_vars

\* ------------------------------------------- several reset tokens of a user

\* The reset table of the specification below holds up to this many rows
MaxCoexistingResets == 2

\* Reset requests for each of the tokens issued, with valid passwords
ManyResetInputs ==
    {ResetData(k, p, p) : k \in 1..MaxCoexistingResets, p \in {Pw1, Pw2}}

ForgotPasswordAgain ==
    \E email \in ForgotEmails : ForgotPasswordView_post_within(email, MaxCoexistingResets)

ResetPasswordAmongMany ==
    \E data \in ManyResetInputs :
        /\ data.token <= Len(resets)
        /\ ResetPasswordView_post(data)

\* Registration, repeated forgot-password requests, resets and the clock.
NextManyResets ==
    \/ Register
    \/ ForgotPasswordAgain
    \/ ResetPasswordAmongMany
    \/ ClockTick

SpecManyResets == Init /\ [][NextManyResets]_vars

\* ----------------------------------------------------------------- sessions

\* A request body without a refresh token, and one with a string that is no token
NoToken == [token_type |-> "none"]
BadToken == [token_type |-> "malformed"]

\* RefreshToken(value): the token is accepted when it is a signed refresh
\* token, its exp (iat + lifetime) lies ahead, and it is not blacklisted
RefreshTokenValid(token, t, B) ==
    /\ token.token_type = "refresh"
    /\ t < token.iat + RefreshLifetimeHours
    /\ token \notin B

LogoutMissingResponse == MessageResponse(400, FALSE, "Refresh token is required.")

LogoutFailedResponse ==
    [status |-> 400, success |-> FALSE,
     message |-> "An error occurred during logout.", detail |-> "TokenError"]

LogoutDoneResponse == MessageResponse(200, TRUE, "Logout successful.")

RefreshFailedResponse ==
    [status |-> 401, success |-> FALSE,
     message |-> "Invalid or expired refresh token.", detail |-> "TokenError"]

RefreshedResponse(token, t) ==
    [status |-> 200, success |-> TRUE,
     access |-> SessionToken("access", token.user_id, t),
     access_token_expiry |-> t + AccessLifetimeHours]

\* a blacklist() that records nothing
Revoke_Nothing(B, token) == B

\* token.blacklist()
Revoke(B, token) == B \cup {token}

\* LogoutView.post, for a request the IsAuthenticated permission lets through
LogoutView_post(token) ==
    /\ req' = [op |-> "logout", at |-> now, refresh |-> token]
    /\ mail' = NoMail
    /\ IF token = NoToken
       THEN /\ resp' = LogoutMissingResponse
            /\ UNCHANGED blacklist
       ELSE IF ~RefreshTokenValid(token, now, blacklist)
       THEN /\ resp' = LogoutFailedResponse
            /\ UNCHANGED blacklist
       ELSE /\ blacklist' = Revoke(blacklist, token)
            /\ resp' = LogoutDoneResponse
    /\ UNCHANGED <<now, ticks, users, verifs, verifIssued, resets, procs>>

\* CustomTokenRefreshView.post, for a request body that has the refresh field
CustomTokenRefreshView_post(token) ==
    /\ req' = [op |-> "refresh", at |-> now, refresh |-> token]
    /\ mail' = NoMail
    /\ resp' = IF RefreshTokenValid(token, now, blacklist)
               THEN RefreshedResponse(token, now)
               ELSE RefreshFailedResponse
    /\ UNCHANGED <<blacklist, now, ticks, users, verifs, verifIssued, resets, procs>>

\* The refresh tokens a client can present: the one of each user's latest
\* login, the revoked ones, and a string that is no token
HeldRefreshTokens ==
    {SessionToken("refresh", u, users[u].last_login[1]) :
        u \in {i \in 1..Len(users) : users[i].last_login # NoLogin}}
    \cup blacklist
    \cup {BadToken}

\* The model's tokens are told apart by user and issue hour (the jti of the
\* real ones is not modelled), so a login in the hour of a revoked token of
\* the same user is left out.
LoginSession ==
    \E data \in LoginInputs :
        /\ \A token \in blacklist : token.iat # now
        /\ UserLoginView_post(data.email, data.password)

Logout == \E token \in HeldRefreshTokens \cup {NoToken} : LogoutView_post(token)

TokenRefresh == \E token \in HeldRefreshTokens : CustomTokenRefreshView_post(token)

\* Registration, verification, logins and the clock, with logout and token refresh.
NextSessions ==
    \/ Register
    \/ VerifyEmail
    \/ LoginSession
    \/ Logout
    \/ TokenRefresh
    \/ ClockTick

SpecSessions == Init /\ [][NextSessions]_vars

\* ------------------------------------------------------------------ claims

\* the address a login, forgot-password or resend request is looked up by
LookupEmail(raw) == Strip(Lower(Strip(raw)))

\* the verification tokens a user owns
VerificationsOf(user) == {k \in DOMAIN verifs : verifs[k].user = user}

LoginRequestValid ==
    /\ req.op = "login"
    /\ EmailFieldValid(Strip(req.email))
    /\ req.password # <<>>
    /\ Strip(req.password) # <<>>

\* C1: after a successful registration the new user is inactive and
\* unverified and owns exactly one verification token, unconsumed, created at
\* the time of the request and expiring 24 hours after its creation.
C1_RegisteredInactiveWithOneToken ==
    (req.op = "register" /\ resp.status = 201) =>
        /\ Cardinality(UsersByEmail(users, resp.email)) = 1
        /\ \A u \in UsersByEmail(users, resp.email) :
              /\ ~users[u].is_active
              /\ ~users[u].email_verified
              /\ Cardinality(VerificationsOf(u)) = 1
              /\ \A k \in VerificationsOf(u) :
                    /\ ~verifs[k].is_verified
                    /\ verifs[k].created_at = req.at
                    /\ verifs[k].expires_at = verifs[k].created_at + 24

C1_Witness ==
    /\ req.op = "register"
    /\ resp.status = 201
    /\ resp.success
    /\ Len(users) >= 1

\* C2: presenting an unexpired token: while it is unconsumed the call succeeds
\* and leaves the owner verified and active (and the token consumed); once it
\* is consumed the call returns AlreadyVerifiedError and changes no user and
\* no token.
C2_VerifyTwice ==
    [][\A k \in DOMAIN verifs :
          (req'.op = "verify" /\ req'.token = k /\ now <= verifs[k].expires_at) =>
              IF ~verifs[k].is_verified
              THEN /\ resp'.status = 200
                   /\ resp'.success
                   /\ users'[verifs[k].user].email_verified
                   /\ users'[verifs[k].user].is_active
                   /\ k \in DOMAIN verifs'
                   /\ verifs'[k].is_verified
              ELSE /\ resp' = VerifyAlreadyResponse
                   /\ users' = users
                   /\ verifs' = verifs]_vars

C2_Witness ==
    /\ req.op = "verify"
    /\ resp = VerifyAlreadyResponse
    /\ req.token \in DOMAIN verifs
    /\ req.at <= verifs[req.token].expires_at
    /\ verifs[req.token].is_verified
    /\ users[verifs[req.token].user].email_verified
    /\ users[verifs[req.token].user].is_active

\* C3 as stated: a verification call made after the token's expires_at returns
\* ExpiredError whatever the state of the token, also when it is consumed.
C3_ExpiredAlwaysExpiredError ==
    (req.op = "verify" /\ req.token \in DOMAIN verifs
        /\ req.at > verifs[req.token].expires_at) =>
        resp = VerifyExpiredResponse

\* C3 as amended: a verification call made after the token's expires_at never
\* succeeds: it returns ExpiredError for an unconsumed token and
\* AlreadyVerifiedError for a consumed one.
C3_ExpiredNeverSucceeds ==
    (req.op = "verify" /\ req.token \in DOMAIN verifs
        /\ req.at > verifs[req.token].expires_at) =>
        /\ resp.status # 200
        /\ ~resp.success
        /\ resp = IF verifs[req.token].is_verified
                  THEN VerifyAlreadyResponse
                  ELSE VerifyExpiredResponse

C3_Witness ==
    /\ req.op = "verify"
    /\ req.token \in DOMAIN verifs
    /\ req.at > verifs[req.token].expires_at
    /\ verifs[req.token].is_verified
    /\ resp = VerifyAlreadyResponse

\* C4: a reset-password call with a token that is used or past its expires_at
\* does not succeed and leaves the owner's stored password as it was.
C4_NoResetWithoutCanReset ==
    [][\A k \in DOMAIN resets :
          (req'.op = "reset" /\ req'.data.token = k
              /\ (resets[k].is_used \/ now > resets[k].expires_at)) =>
              /\ resp'.status # 200
              /\ users'[resets[k].user].password = users[resets[k].user].password]_vars

C4_Witness ==
    /\ req.op = "reset"
    /\ req.data.token \in DOMAIN resets
    /\ resets[req.data.token].is_used
    /\ resp = ResetUsedResponse
    /\ users[resets[req.data.token].user].password # make_password(req.data.new_password)

\* C5: a login answers with a session token pair only when the user found by
\* the normalized email is verified and active and the password presented
\* matches the stored hash.
C5_LoginOnlyVerifiedActiveMatching ==
    (req.op = "login"
        /\ (resp.status = 200 \/ "access" \in DOMAIN resp \/ "refresh" \in DOMAIN resp)) =>
        /\ UsersByEmail(users, LookupEmail(req.email)) # {}
        /\ \A u \in UsersByEmail(users, LookupEmail(req.email)) :
              /\ users[u].email_verified
              /\ users[u].is_active
              /\ users[u].password = make_password(req.password)

C5_Witness ==
    /\ req.op = "login"
    /\ resp.status = 200
    /\ "access" \in DOMAIN resp
    /\ "refresh" \in DOMAIN resp

\* C6: a login for an unverified user yields UnverifiedEmailError and a login
\* for a verified, inactive user yields DeactivatedError, whatever the
\* password: verification is checked before activation, both before the password.
C6_GatingOrder ==
    LoginRequestValid =>
        \A u \in UsersByEmail(users, LookupEmail(req.email)) :
            /\ ~users[u].email_verified => resp = UnverifiedEmailResponse
            /\ (users[u].email_verified /\ ~users[u].is_active) =>
                   resp = DeactivatedResponse

C6_Witness ==
    /\ LoginRequestValid
    /\ resp = DeactivatedResponse
    /\ \E u \in UsersByEmail(users, LookupEmail(req.email)) :
          /\ users[u].email_verified
          /\ ~users[u].is_active
          /\ users[u].password = make_password(req.password)

\* C7 as stated: in every state of the user store a login with an unknown
\* email and a login with an existing user's email and a wrong password get
\* the identical InvalidCredentialsError response.
C7_WrongPasswordLikeUnknownEmail ==
    LoginRequestValid =>
        /\ UsersByEmail(users, LookupEmail(req.email)) = {} =>
               resp = InvalidCredentialsResponse
        /\ \A u \in UsersByEmail(users, LookupEmail(req.email)) :
               users[u].password # make_password(req.password) =>
                   resp = InvalidCredentialsResponse

\* C7 as amended: a login with an unknown email and a login with the email of a
\* verified, active user and a wrong password get the identical
\* InvalidCredentialsError response; for an unverified or deactivated user a
\* wrong password gets UnverifiedEmailError or DeactivatedError instead.
C7_WrongPasswordLikeUnknownEmailWhenLoginable ==
    LoginRequestValid =>
        /\ UsersByEmail(users, LookupEmail(req.email)) = {} =>
               resp = InvalidCredentialsResponse
        /\ \A u \in UsersByEmail(users, LookupEmail(req.email)) :
               users[u].password # make_password(req.password) =>
                   resp = IF ~users[u].email_verified THEN UnverifiedEmailResponse
                          ELSE IF ~users[u].is_active THEN DeactivatedResponse
                          ELSE InvalidCredentialsResponse

C7_Witness ==
    /\ LoginRequestValid
    /\ resp = InvalidCredentialsResponse
    /\ \E u \in UsersByEmail(users, LookupEmail(req.email)) :
          /\ users[u].email_verified
          /\ users[u].is_active
          /\ users[u].password # make_password(req.password)

\* C8: for a well-formed email the forgot-password response is the same
\* response whether or not a user has that email and whether or not the reset
\* mail was delivered.
C8_ForgotResponseSame ==
    (req.op = "forgot" /\ EmailFieldValid(Strip(req.email))) =>
        /\ resp = ForgotResponse
        /\ resp.status = 200

C8_Witness ==
    /\ req.op = "forgot"
    /\ resp = ForgotResponse
    /\ UsersByEmail(users, LookupEmail(req.email)) # {}
    /\ mail.kind = "reset"
    /\ ~mail.delivered

\* the shape of a Response: its status and the keys of its body
ResponseShape(r) == [status |-> r.status, keys |-> DOMAIN r]

\* C9: a resend-verification call for an existing user's email gets a
\* response of the same shape as a call for an email of no user.
C9_ResendHidesExistence ==
    (req.op = "resend" /\ req.email # <<>>) =>
        ResponseShape(resp) = ResponseShape(ResendUnknownResponse)

\* C10: two verification requests for the same token, served at the same
\* time, never both report success.
C10_NotBothVerifySucceed ==
    \A p \in Procs : \A q \in Procs \ {p} :
        (/\ InFlight(p, "done")
         /\ InFlight(q, "done")
         /\ procs[p].token = procs[q].token
         /\ procs[p].resp.status = 200) =>
            procs[q].resp.status # 200

\* C11: two reset-password requests for the same token, served at the same
\* time, never both report success.
C11_NotBothResetSucceed ==
    \A p \in Procs : \A q \in Procs \ {p} :
        (/\ InFlight(p, "done")
         /\ InFlight(q, "done")
         /\ procs[p].op = "reset"
         /\ procs[q].op = "reset"
         /\ procs[p].token = procs[q].token
         /\ procs[p].resp.status = 200) =>
            procs[q].resp.status # 200

\* C12: no two user records have the same email, also when registrations for
\* one email are served at the same time and both pass the uniqueness check
\* before either inserts.
C12_NoTwoUsersWithOneEmail ==
    \A i \in 1..Len(users) : \A j \in 1..Len(users) :
        i # j => users[i].email # users[j].email

C12_Witness ==
    \E p \in Procs : \E q \in Procs \ {p} :
        /\ InFlight(p, "done")
        /\ procs[p].op = "register"
        /\ procs[p].resp.status = 500
        /\ procs[q].op = "register"
        /\ "user" \in DOMAIN procs[q]
        /\ users[procs[q].user].email = LookupEmail(procs[p].data.email)
        /\ Cardinality(UsersByEmail(users, LookupEmail(procs[p].data.email))) = 1

\* the statuses of the structured results of the views
StructuredStatuses == {200, 201, 400, 401, 403, 404}

\* C13: every request ends with a structured result, under every interleaving
\* of requests served at the same time; none ends with an unhandled exception.
C13_NoUnhandledException ==
    \A p \in Procs :
        InFlight(p, "done") =>
            /\ procs[p].resp.status \in StructuredStatuses
            /\ "exception" \notin DOMAIN procs[p].resp

\* C14: in register, verify email, resend verification, forgot password and
\* reset password, a step that calls the notifier succeeds and commits its
\* user and token changes whether the mail was delivered or not; delivery
\* shows only in the email_sent flag of the response.
C14_NotifierFailureChangesNothing ==
    [][mail'.kind # "none" =>
          /\ resp'.success
          /\ "email_sent" \in DOMAIN resp' => resp'.email_sent = mail'.delivered
          /\ req'.op = "register" =>
                /\ resp'.status = 201
                /\ users' = Append(users, UserRegistrationSerializer_create(req'.data))
                /\ verifs' = SaveRow(verifs, verifIssued + 1,
                                     NewEmailVerification(Len(users'), now))
          /\ req'.op = "verify" =>
                /\ resp'.status = 200
                /\ verifs'[req'.token].is_verified
                /\ users'[verifs[req'.token].user].email_verified
                /\ users'[verifs[req'.token].user].is_active
          /\ req'.op = "resend" =>
                /\ resp'.status = 200
                /\ verifIssued' = verifIssued + 1
                /\ verifIssued' \in DOMAIN verifs'
                /\ ~verifs'[verifIssued'].is_verified
          /\ req'.op = "forgot" =>
                /\ resp' = ForgotResponse
                /\ Len(resets') = Len(resets) + 1
                /\ ~resets'[Len(resets')].is_used
          /\ req'.op = "reset" =>
                /\ resp' = ResetDoneResponse
                /\ resets'[req'.data.token].is_used
                /\ users'[resets[req'.data.token].user].password
                       = make_password(req'.data.new_password)]_vars

C14_Witness ==
    /\ req.op = "register"
    /\ mail.kind = "verification"
    /\ ~mail.delivered
    /\ resp.status = 201
    /\ ~resp.email_sent
    /\ UsersByEmail(users, resp.email) # {}
    /\ verifIssued \in DOMAIN verifs

\* C15: verify() called on an unexpired token returns true and leaves the
\* token verified and its user email_verified and active; called on an expired
\* token it returns false and changes neither the token nor the user.
C15_VerifyMethodVerifiesAndActivates ==
    [][\A k \in DOMAIN verifs :
          (req'.op = "EmailVerification.verify" /\ req'.token = k) =>
              IF now <= verifs[k].expires_at
              THEN /\ resp'.returned
                   /\ verifs'[k].is_verified
                   /\ users'[verifs[k].user].email_verified
                   /\ users'[verifs[k].user].is_active
              ELSE /\ ~resp'.returned
                   /\ users' = users
                   /\ verifs' = verifs]_vars

\* C16: consuming the token and activating its user is one atomic step for
\* the requests served at the same time: the tables, which every such request
\* reads, never hold a token with is_verified = false whose user is already
\* email_verified and active, nor a verified token whose user is not.
C16_ConsumeAndActivateAtomic ==
    \A k \in DOMAIN verifs :
        verifs[k].is_verified <=>
            (users[verifs[k].user].email_verified /\ users[verifs[k].user].is_active)

\* C17: every user has email_verified = is_active after every workflow
\* operation: a user is created with both false, and the flags change only in
\* a successful email verification, which sets both to true.
C17_VerifiedAndActiveTogether ==
    [][\A u \in 1..Len(users') :
          /\ users'[u].email_verified = users'[u].is_active
          /\ u > Len(users) => ~users'[u].email_verified
          /\ (u <= Len(users) /\ users'[u].email_verified # users[u].email_verified) =>
                /\ req'.op = "verify"
                /\ resp'.status = 200
                /\ users'[u].email_verified
                /\ users'[u].is_active]_vars

C17_Witness ==
    /\ req.op = "verify"
    /\ resp.status = 200
    /\ \E u \in 1..Len(users) :
          /\ users[u].email = resp.email
          /\ users[u].email_verified
          /\ users[u].is_active

\* C18: a verification token's is_verified flag changes from false to true at
\* most once, and only at a time not later than the token's expires_at: a
\* token is created unconsumed, a consumed token stays consumed, a deleted
\* token does not come back, and the flag is set only while now <= expires_at.
C18_ConsumedAtMostOnceBeforeExpiry ==
    [][/\ \A k \in DOMAIN verifs' \ DOMAIN verifs :
             k > verifIssued /\ ~verifs'[k].is_verified
       /\ \A k \in DOMAIN verifs :
             /\ (verifs[k].is_verified /\ k \in DOMAIN verifs') => verifs'[k].is_verified
             /\ (~verifs[k].is_verified /\ k \in DOMAIN verifs' /\ verifs'[k].is_verified) =>
                    /\ now <= verifs[k].expires_at
                    /\ verifs'[k].expires_at = verifs[k].expires_at]_vars

C18_Witness ==
    /\ req.op = "verify"
    /\ resp.status = 200
    /\ verifs[req.token].is_verified
    /\ req.at > verifs[req.token].created_at
    /\ req.at <= verifs[req.token].expires_at

\* C19 as stated: after a reset-password call succeeds with a token the token
\* is used, and every later call presenting it, with any new password,
\* returns AlreadyUsedError and leaves the password and the token unchanged.
C19_UsedTokenAlwaysAlreadyUsed ==
    [][\A k \in DOMAIN resets :
          /\ (req'.op = "reset" /\ req'.data.token = k /\ resp'.status = 200) =>
                resets'[k].is_used
          /\ (req'.op = "reset" /\ req'.data.token = k /\ resets[k].is_used) =>
                /\ resp' = ResetUsedResponse
                /\ users' = users
                /\ resets' = resets]_vars

\* C19 as amended: after a reset-password call succeeds with a token the
\* token is used and stays used, and every later call presenting it changes
\* neither the password nor the token: it returns AlreadyUsedError when the
\* new password passes validation and the validation error otherwise.
C19_UsedTokenInert ==
    [][\A k \in DOMAIN resets :
          /\ (req'.op = "reset" /\ req'.data.token = k /\ resp'.status = 200) =>
                resets'[k].is_used
          /\ resets[k].is_used => resets'[k].is_used
          /\ (req'.op = "reset" /\ req'.data.token = k /\ resets[k].is_used) =>
                /\ resp' = IF ResetErrors(req'.data) = {}
                           THEN ResetUsedResponse
                           ELSE ValidationErrorResponse(ResetErrors(req'.data))
                /\ users' = users
                /\ resets' = resets]_vars

C19_Witness ==
    /\ req.op = "reset"
    /\ req.data.token \in DOMAIN resets
    /\ resets[req.data.token].is_used
    /\ req.at > resets[req.data.token].expires_at
    /\ resp = ResetUsedResponse
    /\ users[resets[req.data.token].user].password # make_password(req.data.new_password)

\* C20: after a successful resend-verification call for an unverified user
\* the user owns exactly one verification token, the one just issued
\* (unconsumed, expiring 24 hours after issue); every token issued to the user
\* before is gone, and presenting a token that no longer exists to email
\* verification yields NotFoundError and changes nothing.
C20_ResendLeavesOneFreshToken ==
    [][/\ (req'.op = "resend" /\ resp'.status = 200 /\ "email_sent" \in DOMAIN resp') =>
             /\ UsersByEmail(users', resp'.email) # {}
             /\ \A u \in UsersByEmail(users', resp'.email) :
                   /\ ~users'[u].email_verified
                   /\ {k \in DOMAIN verifs' : verifs'[k].user = u} = {verifIssued'}
                   /\ verifIssued' > verifIssued
                   /\ ~verifs'[verifIssued'].is_verified
                   /\ verifs'[verifIssued'].expires_at = now + 24
                   /\ \A k \in DOMAIN verifs : verifs[k].user = u => k \notin DOMAIN verifs'
       /\ (req'.op = "verify" /\ req'.token \notin DOMAIN verifs) =>
             /\ resp' = VerifyNotFoundResponse
             /\ users' = users
             /\ verifs' = verifs]_vars

C20_Witness ==
    /\ req.op = "verify"
    /\ req.token \in 1..verifIssued
    /\ req.token \notin DOMAIN verifs
    /\ resp = VerifyNotFoundResponse
    /\ \E u \in 1..Len(users) : VerificationsOf(u) = {verifIssued}

\* C21: a forgot-password request changes no existing reset token; several
\* unused, unexpired reset tokens of one user coexist; a successful reset
\* with one of them changes no other token, and every token for which
\* can_reset() holds resets the password when presented with valid input.
C21_ResetTokensIndependent ==
    [][/\ \A k \in DOMAIN resets :
             (req'.op = "forgot" \/ (req'.op = "reset" /\ req'.data.token # k)) =>
                 (k \in DOMAIN resets' /\ resets'[k] = resets[k])
       /\ \A k \in DOMAIN resets :
             (/\ req'.op = "reset"
              /\ req'.data.token = k
              /\ ResetErrors(req'.data) = {}
              /\ PasswordReset_can_reset(resets[k], now)) =>
                 /\ resp' = ResetDoneResponse
                 /\ resets'[k].is_used
                 /\ users'[resets[k].user].password
                        = make_password(req'.data.new_password)]_vars

C21_Witness ==
    /\ req.op = "reset"
    /\ resp = ResetDoneResponse
    /\ \E j \in DOMAIN resets : \E k \in DOMAIN resets :
          /\ j # k
          /\ req.data.token = k
          /\ resets[j].user = resets[k].user
          /\ resets[k].is_used
          /\ ~resets[j].is_used
          /\ PasswordReset_can_reset(resets[j], now)

\* the input violations of a registration request, on the users stored
RegistrationViolation(U, data) ==
    \/ Len(data.password) < 8
    \/ ~\E i \in 1..Len(data.password) : data.password[i] \in Letters
    \/ ~\E i \in 1..Len(data.password) : data.password[i] \in Digits
    \/ data.password # data.confirm_password
    \/ ~EmailRegexMatch(LookupEmail(data.email))
    \/ ~PhoneOk(data.phone_number)
    \/ UsersByEmail(U, LookupEmail(data.email)) # {}

\* C22: a registration request with an input violation (short password, no
\* letter, no digit, confirmation mismatch, malformed email or phone, email
\* already registered) is rejected, and a rejected registration creates no
\* user and no verification token and sends no mail.
C22_RejectedRegistrationChangesNothing ==
    [][req'.op = "register" =>
          /\ RegistrationViolation(users, req'.data) => resp'.status = 400
          /\ resp'.status # 201 =>
                /\ ~resp'.success
                /\ users' = users
                /\ verifs' = verifs
                /\ verifIssued' = verifIssued
                /\ resets' = resets
                /\ mail' = NoMail]_vars

C22_Witness ==
    /\ req.op = "register"
    /\ resp.status = 400
    /\ resp.errors = {"email"}
    /\ Len(users) = 1
    /\ UsersByEmail(users, LookupEmail(req.data.email)) # {}
    /\ Cardinality(DOMAIN verifs) = 1
    /\ mail = NoMail

\* C23: every stored user email is lower-cased and no two users have emails
\* equal after lower-casing; a registration whose email, lower-cased, is the
\* email of an existing user is rejected with an error on the email field.
C23_EmailsLowerCasedAndUnique ==
    [][/\ \A u \in 1..Len(users') : users'[u].email = Lower(users'[u].email)
       /\ \A i \in 1..Len(users') : \A j \in 1..Len(users') :
             i # j => Lower(users'[i].email) # Lower(users'[j].email)
       /\ \A p \in Procs :
             (/\ InFlight(p, "idle")
              /\ procs'[p].pc # "idle"
              /\ procs'[p].op = "register"
              /\ UsersByEmail(users, Lower(Strip(procs'[p].data.email))) # {}) =>
                 /\ procs'[p].pc = "done"
                 /\ procs'[p].resp.status = 400
                 /\ "email" \in procs'[p].resp.errors]_vars

C23_Witness ==
    \E p \in Procs :
        /\ InFlight(p, "done")
        /\ procs[p].op = "register"
        /\ procs[p].data.email # Lower(procs[p].data.email)
        /\ procs[p].resp.status = 400
        /\ procs[p].resp.errors = {"email"}
        /\ UsersByEmail(users, Lower(Strip(procs[p].data.email))) # {}
        /\ UsersByEmail(users, Strip(procs[p].data.email)) = {}

C25_VerificationOrder ==
    [][req'.op = "verify" =>
          IF req'.token \notin DOMAIN verifs
          THEN resp' = VerifyNotFoundResponse /\ users' = users /\ verifs' = verifs
          ELSE IF verifs[req'.token].is_verified
          THEN resp' = VerifyAlreadyResponse /\ users' = users /\ verifs' = verifs
          ELSE IF now > verifs[req'.token].expires_at
          THEN resp' = VerifyExpiredResponse /\ users' = users /\ verifs' = verifs
          ELSE /\ resp'.status = 200
               /\ resp'.success
               /\ verifs' # verifs
               /\ users' # users]_vars

C25_Witness ==
    /\ req.op = "verify"
    /\ req.token \in DOMAIN verifs
    /\ ~verifs[req.token].is_verified
    /\ req.at > verifs[req.token].expires_at
    /\ resp = VerifyExpiredResponse
    /\ ~users[verifs[req.token].user].email_verified

\* C26: a reset-password call with valid input is decided in the order: no
\* such token gives NotFoundError, a used token AlreadyUsedError, an expired
\* token ExpiredError, otherwise success, which stores the new password; a
\* login of a verified, active user succeeds with the stored password and
\* yields InvalidCredentialsError with any other, so after a reset the new
\* password logs in and the previous one does not.
C26_ResetOrderAndNewPassword ==
    [][/\ (req'.op = "reset" /\ ResetErrors(req'.data) = {}) =>
             IF req'.data.token \notin DOMAIN resets
             THEN resp' = ResetNotFoundResponse /\ users' = users /\ resets' = resets
             ELSE IF resets[req'.data.token].is_used
             THEN resp' = ResetUsedResponse /\ users' = users /\ resets' = resets
             ELSE IF now > resets[req'.data.token].expires_at
             THEN resp' = ResetExpiredResponse /\ users' = users /\ resets' = resets
             ELSE /\ resp' = ResetDoneResponse
                  /\ users'[resets[req'.data.token].user].password
                         = make_password(req'.data.new_password)
                  /\ resets'[req'.data.token].is_used
       /\ LoginRequestValid' =>
             \A u \in UsersByEmail(users, LookupEmail(req'.email)) :
                 (users[u].email_verified /\ users[u].is_active) =>
                     IF users[u].password = make_password(req'.password)
                     THEN resp'.status = 200
                     ELSE resp' = InvalidCredentialsResponse]_vars

C26_Witness ==
    /\ LoginRequestValid
    /\ resp = InvalidCredentialsResponse
    /\ req.password = Pw1
    /\ \E k \in DOMAIN resets :
          /\ resets[k].is_used
          /\ users[resets[k].user].email = LookupEmail(req.email)
          /\ users[resets[k].user].email_verified
          /\ users[resets[k].user].is_active
          /\ users[resets[k].user].password = make_password(Pw2)

\* C27: a login changes last_login only when it succeeds: a failing login
\* (validation error, unknown email, unverified, deactivated, wrong password)
\* changes no user field and issues no token; a successful login changes no
\* user field other than last_login and no verification or reset token.
C27_LoginWritesOnlyLastLogin ==
    [][req'.op = "login" =>
          /\ verifs' = verifs
          /\ resets' = resets
          /\ IF resp'.status = 200
             THEN /\ \E u \in DOMAIN users :
                        users' = [users EXCEPT ![u].last_login = <<now>>]
                  /\ {"access", "refresh"} \subseteq DOMAIN resp'
             ELSE /\ users' = users
                  /\ "access" \notin DOMAIN resp'
                  /\ "refresh" \notin DOMAIN resp']_vars

C27_Witness ==
    /\ req.op = "login"
    /\ resp = DeactivatedResponse
    /\ \E u \in DOMAIN users :
          /\ users[u].email = LookupEmail(req.email)
          /\ users[u].last_login # NoLogin
          /\ users[u].last_login[1] < req.at

\* C28: once a user has registered and verified the email address with the
\* token of the registration, a login with the registered address in any
\* letter case and the stored (registration) password succeeds and returns an
\* access token and a refresh token; while the user is unverified every login
\* for that user fails.
C28_LoginAfterVerificationOnly ==
    [][LoginRequestValid' =>
          \A u \in UsersByEmail(users, LookupEmail(req'.email)) :
              IF ~users[u].email_verified
              THEN resp'.status # 200 /\ "access" \notin DOMAIN resp'
              ELSE (users[u].is_active
                    /\ users[u].password = make_password(req'.password)) =>
                       /\ resp'.status = 200
                       /\ resp'.access = SessionToken("access", u, now)
                       /\ resp'.refresh = SessionToken("refresh", u, now)]_vars

C28_Witness ==
    /\ LoginRequestValid
    /\ resp.status = 200
    /\ \E k \in DOMAIN verifs :
          /\ verifs[k].is_verified
          /\ users[verifs[k].user].email = LookupEmail(req.email)
          /\ users[verifs[k].user].email # Strip(req.email)
          /\ users[verifs[k].user].password = make_password(req.password)
          /\ resp.refresh = SessionToken("refresh", verifs[k].user, req.at)

\* C29: over any sequence and interleaving of the workflow operations the
\* flags are monotonic: a user's email_verified, a verification token's
\* is_verified and a reset token's is_used never go from true back to false.
C29_FlagsMonotonic ==
    [][/\ \A u \in DOMAIN users :
             users[u].email_verified => users'[u].email_verified
       /\ \A k \in DOMAIN verifs \cap DOMAIN verifs' :
             verifs[k].is_verified => verifs'[k].is_verified
       /\ \A k \in DOMAIN resets :
             resets[k].is_used => resets'[k].is_used]_vars

\* C30: in every reachable state, the state between the two writes of a
\* verification included, a verification token with is_verified = true
\* belongs to a user with email_verified = true.
C30_VerifiedTokenHasVerifiedUser ==
    \A k \in DOMAIN verifs :
        verifs[k].is_verified => users[verifs[k].user].email_verified

\* C31: when every request runs to completion before the next one starts,
\* every user owns at most one verification token in every reachable state,
\* whatever the sequence of register, verify-email and resend-verification
\* operations.
C31_AtMostOneVerificationPerUser ==
    \A u \in 1..Len(users) : Cardinality(VerificationsOf(u)) <= 1

C31_Witness ==
    /\ req.op = "resend"
    /\ resp.status = 200
    /\ "email_sent" \in DOMAIN resp
    /\ verifIssued = MaxVerifs
    /\ \E u \in 1..Len(users) :
          /\ users[u].email = resp.email
          /\ Cardinality(VerificationsOf(u)) = 1
          /\ Cardinality(DOMAIN verifs) < verifIssued

\* C32: forgot-password issues a reset token to any existing user, whatever
\* the user's email_verified and is_active; a successful reset-password
\* changes only the user's password and the token's is_used and never
\* email_verified or is_active; a login of an unverified user yields
\* UnverifiedEmailError, so an unverified user who resets the password still
\* cannot log in with the new one.
C32_ResetChangesOnlyPassword ==
    [][/\ (/\ procs' = procs
           /\ req'.op = "forgot"
           /\ ForgotErrors(req'.email) = {}
           /\ UsersByEmail(users, LookupEmail(req'.email)) # {}) =>
             /\ Len(resets') = Len(resets) + 1
             /\ resets'[Len(resets')].user \in UsersByEmail(users, LookupEmail(req'.email))
             /\ ~resets'[Len(resets')].is_used
             /\ users' = users
       /\ (procs' = procs /\ req'.op = "reset" /\ resp' = ResetDoneResponse) =>
             /\ users' = [users EXCEPT ![resets[req'.data.token].user].password =
                                           make_password(req'.data.new_password)]
             /\ resets' = [resets EXCEPT ![req'.data.token].is_used = TRUE]
             /\ verifs' = verifs
       /\ \A p \in Procs :
             (procs[p].pc = "reset_save_user" /\ procs'[p].pc = "reset_save_reset") =>
                 \A u \in DOMAIN users :
                     /\ users'[u].email_verified = users[u].email_verified
                     /\ users'[u].is_active = users[u].is_active
       /\ (procs' = procs /\ LoginRequestValid') =>
             \A u \in UsersByEmail(users, LookupEmail(req'.email)) :
                 ~users[u].email_verified => resp' = UnverifiedEmailResponse]_vars

\* C33: when an email verification for token T1 is served at the same time
\* as a resend-verification for T1's owner, then once the resend has deleted
\* T1, T1 does not exist in the token table afterwards and cannot make the
\* user verified: a verification that read T1 before the deletion performs
\* none of its writes after it.
C33_DeletedTokenStaysDeleted ==
    [][/\ \A k \in 1..verifIssued :
             k \notin DOMAIN verifs => k \notin DOMAIN verifs'
       /\ \A p \in Procs :
             (/\ procs[p].pc \in {"save_user", "save_verification"}
              /\ procs[p].token \notin DOMAIN verifs
              /\ procs'[p] # procs[p]) =>
                 /\ users' = users
                 /\ verifs' = verifs]_vars

=============================================================================
